---- MODULE Spec2Model ----
(***************************************************************************)
(* Model of native/explorer/src/expressions.rs: the factories that build   *)
(* lazy column expressions (one NIF per operation), the handle pool the    *)
(* factories fill, and the evaluation of a built expression against a data *)
(* frame by the execution engine.                                          *)
(***************************************************************************)
EXTENDS Integers, Sequences, FiniteSets

VARIABLES
    nodes,   \* the expressions built so far; a handle (ExExpr) is an index
    origin,  \* for each handle, the call that returned it
    last,    \* the most recent call: its operation, arguments and outcome
    df       \* the data frame expressions are evaluated against

vars == <<nodes, origin, last, df>>

(***************************************************************************)
(* Bounds of the model.                                                    *)
(***************************************************************************)
MaxNodes == 3
MaxLen == 3
MaxPairLen == 2

(***************************************************************************)
(* Scalars.  A cell of a column is null, an integer, a boolean or a        *)
(* fraction (the mean of integers).  Each shape has fields of its own, so  *)
(* two cells of different shape are simply unequal.                        *)
(***************************************************************************)
Null == [null |-> TRUE]
IntV(n) == [int |-> n]
BoolV(b) == [bool |-> b]
IsNull(v) == v = Null

(***************************************************************************)
(* Expression constructors: the polars DSL calls the factories make.       *)
(***************************************************************************)
Lit(v) == [kind |-> "Literal", value |-> v]
Col(name) == [kind |-> "Column", name |-> name]
BinaryExpr(l, op, r) == [kind |-> "BinaryExpr", op |-> op, left |-> l, right |-> r]
Unary(op, e) == [kind |-> "Unary", op |-> op, input |-> e]
Agg(op, e) == [kind |-> "Agg", op |-> op, input |-> e]
AggDdof(op, e, ddof) == [kind |-> "AggDdof", op |-> op, input |-> e, ddof |-> ddof]
Quantile(e, q, interpol) ==
    [kind |-> "Quantile", input |-> e, quantile |-> q, interpol |-> interpol]
Ternary(p, t, f) == [kind |-> "Ternary", predicate |-> p, truthy |-> t, falsy |-> f]
FillNull(e, by) == [kind |-> "FillNull", input |-> e, by |-> by]
Cast(e, dtype) == [kind |-> "Cast", input |-> e, dtype |-> dtype]
Alias(e, name) == [kind |-> "Alias", input |-> e, name |-> name]
Slice(e, offset, length) ==
    [kind |-> "Slice", input |-> e, offset |-> offset, length |-> length]
HeadExpr(e, length) == [kind |-> "Head", input |-> e, length |-> length]
TailExpr(e, length) == [kind |-> "Tail", input |-> e, length |-> length]
Cumulative(op, e, reverse) ==
    [kind |-> "Cumulative", op |-> op, input |-> e, reverse |-> reverse]
SortOptions(descending, nulls_last) ==
    [descending |-> descending, nulls_last |-> nulls_last]
Sort(e, options) == [kind |-> "Sort", input |-> e, options |-> options]
ArgSort(e, options) == [kind |-> "ArgSort", input |-> e, options |-> options]
Rolling(fun, e, opts) == [kind |-> "Rolling", op |-> fun, input |-> e, options |-> opts]

(***************************************************************************)
(* Inputs the calls draw from.                                             *)
(***************************************************************************)
Handles == 1 .. Len(nodes)
ColumnNames == {"a", "b"}
IntegerInputs == {0, 2}
FloatInputs == {[num |-> 1, den |-> 2]}
StringInputs == {"x"}
BooleanInputs == {TRUE}
DateInputs == {[year |-> 2023, month |-> 1, day |-> 2]}
TimeInputs == {[hour |-> 3, minute |-> 4, second |-> 5, microsecond |-> 6]}
CastTargets == {"integer", "string", "not_a_type"}
PeakKinds == {"min", "max", "middle"}
Strategies == {"backward", "forward", "min", "max", "mean", "median"}
OffsetInputs == {-1, 0}
LengthInputs == {1}
QuantileInputs == {[num |-> 1, den |-> 2]}
AliasNames == {"n"}
\* Window parameters: an option that is not given is <<>>, one that is given is
\* <<value>>.  One combination per rule the parameters can break, and valid ones.
WindowParams(window_size, weights, min_periods, center) ==
    [window_size |-> window_size, weights |-> weights,
     min_periods |-> min_periods, center |-> center]
WindowInputs ==
    { WindowParams(0, <<>>, <<>>, FALSE),
      WindowParams(2, <<<<1>>>>, <<>>, FALSE),
      WindowParams(1, <<>>, <<2>>, TRUE),
      WindowParams(1, <<>>, <<>>, FALSE),
      WindowParams(1, <<<<1>>>>, <<1>>, TRUE),
      WindowParams(2, <<>>, <<1>>, FALSE) }

(***************************************************************************)
(* The outcome of a call.  A NIF either returns a new handle wrapping the  *)
(* expression it built (ExExpr::new) or panics, which the caller sees as a *)
(* raised error; a panic returns nothing, so no handle comes into being.   *)
(***************************************************************************)
Call(op, args, tag) ==
    [op |-> op, args |-> args, tag |-> tag, flag |-> FALSE, size |-> 0,
     weights |-> <<>>, min_periods |-> <<>>, raised |-> FALSE, out |-> <<>>]
NoCall == Call("none", <<>>, "")
Panic == [kind |-> "Panic"]

CanCall == Len(nodes) < MaxNodes

\* Faulty variant: the result is written over the first operand's handle.
ExExprNew_in_place(expr, call) ==
    /\ IF call.args = <<>>
       THEN /\ nodes' = Append(nodes, expr)
            /\ origin' = Append(origin, call)
       ELSE /\ nodes' = [nodes EXCEPT ![call.args[1]] = expr]
            /\ origin' = [origin EXCEPT ![call.args[1]] = call]
    /\ last' = call
    /\ UNCHANGED df

ExExprNew(expr, call) ==
    /\ nodes' = Append(nodes, expr)
    /\ origin' = Append(origin, call)
    /\ last' = call
    /\ UNCHANGED df

Raise(call) ==
    /\ last' = [call EXCEPT !.raised = TRUE]
    /\ UNCHANGED <<nodes, origin, df>>

Return(outcome, call) ==
    IF outcome = Panic THEN Raise(call) ELSE ExExprNew(outcome, call)

(***************************************************************************)
(* Builders: one leaf per call.                                            *)
(***************************************************************************)
expr_integer(number) ==
    /\ CanCall
    /\ ExExprNew(Lit(IntV(number)), Call("integer", <<>>, ""))

expr_float(number) ==
    /\ CanCall
    /\ ExExprNew(Lit([float |-> number]), Call("float", <<>>, ""))

expr_string(string) ==
    /\ CanCall
    /\ ExExprNew(Lit([str |-> string]), Call("string", <<>>, string))

expr_boolean(boolean) ==
    /\ CanCall
    /\ ExExprNew(Lit(BoolV(boolean)), Call("boolean", <<>>, ""))

\* NaiveDate::from(date): the calendar date of the foreign struct's fields.
NaiveDateFrom(date) == <<date.year, date.month, date.day>>

\* NaiveDateTime::from(datetime): the date, then the time of day.
NaiveDateTimeFrom(date, time) ==
    NaiveDateFrom(date) \o <<time.hour, time.minute, time.second, time.microsecond>>

expr_date(date) ==
    /\ CanCall
    /\ ExExprNew(Lit([date |-> NaiveDateFrom(date)]), Call("date", <<>>, ""))

expr_datetime(date, time) ==
    /\ CanCall
    /\ ExExprNew(Lit([datetime |-> NaiveDateTimeFrom(date, time)]),
                 Call("datetime", <<>>, ""))

expr_column(name) ==
    /\ CanCall
    /\ ExExprNew(Col(name), Call("column", <<>>, name))

(***************************************************************************)
(* cast: the target name is resolved first, and the call panics on a name  *)
(* that does not resolve ("dtype is not valid").                           *)
(***************************************************************************)
DTypeNames == {"integer", "float", "boolean", "string", "date", "datetime"}

cast_str_to_dtype(to_dtype) ==
    IF to_dtype \in DTypeNames
    THEN [ok |-> TRUE, dtype |-> to_dtype]
    ELSE [ok |-> FALSE, dtype |-> ""]

\* Faulty variant: the target name is used whether it resolves or not.
cast_expr_unchecked(expr, to_dtype) == Cast(expr, to_dtype)

cast_expr(expr, to_dtype) ==
    LET resolved == cast_str_to_dtype(to_dtype)
    IN  IF resolved.ok THEN Cast(expr, resolved.dtype) ELSE Panic

expr_cast(data, to_dtype) ==
    /\ CanCall
    /\ Return(cast_expr(nodes[data], to_dtype), Call("cast", <<data>>, to_dtype))

(***************************************************************************)
(* Comparison and logical combinators.                                     *)
(***************************************************************************)
expr_eq(left, right) ==
    /\ CanCall
    /\ ExExprNew(BinaryExpr(nodes[left], "Eq", nodes[right]),
                 Call("eq", <<left, right>>, ""))

expr_neq(left, right) ==
    /\ CanCall
    /\ ExExprNew(BinaryExpr(nodes[left], "NotEq", nodes[right]),
                 Call("neq", <<left, right>>, ""))

expr_gt(left, right) ==
    /\ CanCall
    /\ ExExprNew(BinaryExpr(nodes[left], "Gt", nodes[right]),
                 Call("gt", <<left, right>>, ""))

expr_gt_eq(left, right) ==
    /\ CanCall
    /\ ExExprNew(BinaryExpr(nodes[left], "GtEq", nodes[right]),
                 Call("gt_eq", <<left, right>>, ""))

expr_lt(left, right) ==
    /\ CanCall
    /\ ExExprNew(BinaryExpr(nodes[left], "Lt", nodes[right]),
                 Call("lt", <<left, right>>, ""))

expr_lt_eq(left, right) ==
    /\ CanCall
    /\ ExExprNew(BinaryExpr(nodes[left], "LtEq", nodes[right]),
                 Call("lt_eq", <<left, right>>, ""))

expr_binary_and(left, right) ==
    /\ CanCall
    /\ ExExprNew(BinaryExpr(nodes[left], "And", nodes[right]),
                 Call("binary_and", <<left, right>>, ""))

expr_binary_or(left, right) ==
    /\ CanCall
    /\ ExExprNew(BinaryExpr(nodes[left], "Or", nodes[right]),
                 Call("binary_or", <<left, right>>, ""))

expr_is_nil(expr) ==
    /\ CanCall
    /\ ExExprNew(Unary("IsNull", nodes[expr]), Call("is_nil", <<expr>>, ""))

expr_is_not_nil(expr) ==
    /\ CanCall
    /\ ExExprNew(Unary("IsNotNull", nodes[expr]), Call("is_not_nil", <<expr>>, ""))

expr_all_equal(left, right) ==
    /\ CanCall
    /\ ExExprNew(Unary("All", BinaryExpr(nodes[left], "Eq", nodes[right])),
                 Call("all_equal", <<left, right>>, ""))

(***************************************************************************)
(* Shape operators.                                                        *)
(***************************************************************************)
expr_slice(expr, offset, length) ==
    /\ CanCall
    /\ ExExprNew(Slice(nodes[expr], offset, length), Call("slice", <<expr>>, ""))

expr_head(expr, length) ==
    /\ CanCall
    /\ ExExprNew(HeadExpr(nodes[expr], length), Call("head", <<expr>>, ""))

expr_tail(expr, length) ==
    /\ CanCall
    /\ ExExprNew(TailExpr(nodes[expr], length), Call("tail", <<expr>>, ""))

(***************************************************************************)
(* peaks: the operand compared with its own min or max reduction.  Any     *)
(* kind other than "min" takes the max branch.                             *)
(***************************************************************************)
\* Faulty variant: the two reductions swapped.
type_expr_swapped(expr, min_or_max) ==
    IF min_or_max = "min" THEN Agg("Max", expr) ELSE Agg("Min", expr)

type_expr(expr, min_or_max) ==
    IF min_or_max = "min" THEN Agg("Min", expr) ELSE Agg("Max", expr)

peaks_expr(expr, min_or_max) ==
    BinaryExpr(expr, "Eq", type_expr(expr, min_or_max))

expr_peaks(data, min_or_max) ==
    /\ CanCall
    /\ ExExprNew(peaks_expr(nodes[data], min_or_max),
                 Call("peaks", <<data>>, min_or_max))

(***************************************************************************)
(* fill_missing: one arm per strategy; any other strategy panics.          *)
(***************************************************************************)
\* Faulty variant: "mean" fills with the previous value, not the column's mean.
result_expr_local_mean(orig_expr, strategy) ==
    CASE strategy = "backward" -> Unary("BackwardFill", orig_expr)
      [] strategy = "forward" -> Unary("ForwardFill", orig_expr)
      [] strategy = "min" -> FillNull(orig_expr, Agg("Min", orig_expr))
      [] strategy = "max" -> FillNull(orig_expr, Agg("Max", orig_expr))
      [] strategy = "mean" -> Unary("ForwardFill", orig_expr)
      [] OTHER -> Panic

\* Faulty variant: an unknown strategy falls back to a forward fill.
result_expr_fallback(orig_expr, strategy) ==
    CASE strategy = "backward" -> Unary("BackwardFill", orig_expr)
      [] strategy = "min" -> FillNull(orig_expr, Agg("Min", orig_expr))
      [] strategy = "max" -> FillNull(orig_expr, Agg("Max", orig_expr))
      [] strategy = "mean" -> FillNull(orig_expr, Agg("Mean", orig_expr))
      [] OTHER -> Unary("ForwardFill", orig_expr)

result_expr(orig_expr, strategy) ==
    CASE strategy = "backward" -> Unary("BackwardFill", orig_expr)
      [] strategy = "forward" -> Unary("ForwardFill", orig_expr)
      [] strategy = "min" -> FillNull(orig_expr, Agg("Min", orig_expr))
      [] strategy = "max" -> FillNull(orig_expr, Agg("Max", orig_expr))
      [] strategy = "mean" -> FillNull(orig_expr, Agg("Mean", orig_expr))
      [] OTHER -> Panic

expr_fill_missing(data, strategy) ==
    /\ CanCall
    /\ Return(result_expr(nodes[data], strategy),
              Call("fill_missing", <<data>>, strategy))

expr_fill_missing_with_value(data, value) ==
    /\ CanCall
    /\ ExExprNew(FillNull(nodes[data], nodes[value]),
                 Call("fill_missing_with_value", <<data, value>>, ""))

(***************************************************************************)
(* Arithmetic combinators.                                                 *)
(***************************************************************************)
expr_add(left, right) ==
    /\ CanCall
    /\ ExExprNew(BinaryExpr(nodes[left], "Plus", nodes[right]),
                 Call("add", <<left, right>>, ""))

expr_subtract(left, right) ==
    /\ CanCall
    /\ ExExprNew(BinaryExpr(nodes[left], "Minus", nodes[right]),
                 Call("subtract", <<left, right>>, ""))

expr_divide(left, right) ==
    /\ CanCall
    /\ ExExprNew(BinaryExpr(nodes[left], "Divide", nodes[right]),
                 Call("divide", <<left, right>>, ""))

\* Faulty variant: the division without the zero guard.
quotient_unguarded(left_expr, right_expr) ==
    BinaryExpr(left_expr, "Divide", right_expr)

\* left / when(right == 0).then(null).otherwise(right)
quotient(left_expr, right_expr) ==
    BinaryExpr(left_expr, "Divide",
               Ternary(BinaryExpr(right_expr, "Eq", Lit(IntV(0))),
                       Lit(Null), right_expr))

expr_quotient(left, right) ==
    /\ CanCall
    /\ ExExprNew(quotient(nodes[left], nodes[right]),
                 Call("quotient", <<left, right>>, ""))

\* Faulty variant: the remainder over an unguarded quotient.
remainder_unguarded(left_expr, right_expr) ==
    LET quot == BinaryExpr(left_expr, "Divide", right_expr)
        mult == BinaryExpr(right_expr, "Multiply", quot)
    IN  BinaryExpr(left_expr, "Minus", mult)

\* left - right * quotient, the quotient guarded as in expr_quotient
remainder(left_expr, right_expr) ==
    LET quot == BinaryExpr(left_expr, "Divide",
                           Ternary(BinaryExpr(right_expr, "Eq", Lit(IntV(0))),
                                   Lit(Null), right_expr))
        mult == BinaryExpr(right_expr, "Multiply", quot)
    IN  BinaryExpr(left_expr, "Minus", mult)

expr_remainder(left, right) ==
    /\ CanCall
    /\ ExExprNew(remainder(nodes[left], nodes[right]),
                 Call("remainder", <<left, right>>, ""))

expr_multiply(left, right) ==
    /\ CanCall
    /\ ExExprNew(BinaryExpr(nodes[left], "Multiply", nodes[right]),
                 Call("multiply", <<left, right>>, ""))

expr_pow(left, right) ==
    /\ CanCall
    /\ ExExprNew(BinaryExpr(nodes[left], "Pow", nodes[right]),
                 Call("pow", <<left, right>>, ""))

(***************************************************************************)
(* Aggregates.                                                             *)
(***************************************************************************)
expr_sum(expr) ==
    /\ CanCall
    /\ ExExprNew(Agg("Sum", nodes[expr]), Call("sum", <<expr>>, ""))

expr_min(expr) ==
    /\ CanCall
    /\ ExExprNew(Agg("Min", nodes[expr]), Call("min", <<expr>>, ""))

expr_max(expr) ==
    /\ CanCall
    /\ ExExprNew(Agg("Max", nodes[expr]), Call("max", <<expr>>, ""))

expr_mean(expr) ==
    /\ CanCall
    /\ ExExprNew(Agg("Mean", nodes[expr]), Call("mean", <<expr>>, ""))

expr_median(expr) ==
    /\ CanCall
    /\ ExExprNew(Agg("Median", nodes[expr]), Call("median", <<expr>>, ""))

expr_var(expr) ==
    /\ CanCall
    /\ ExExprNew(AggDdof("Var", nodes[expr], 1), Call("var", <<expr>>, ""))

expr_std(expr) ==
    /\ CanCall
    /\ ExExprNew(AggDdof("Std", nodes[expr], 1), Call("std", <<expr>>, ""))

\* parse_quantile_interpol_options("nearest")
parse_quantile_interpol_options(strategy) == strategy

expr_quantile(expr, q) ==
    /\ CanCall
    /\ ExExprNew(Quantile(nodes[expr], q, parse_quantile_interpol_options("nearest")),
                 Call("quantile", <<expr>>, ""))

expr_alias(expr, name) ==
    /\ CanCall
    /\ ExExprNew(Alias(nodes[expr], name), Call("alias", <<expr>>, name))

expr_count(expr) ==
    /\ CanCall
    /\ ExExprNew(Agg("Count", nodes[expr]), Call("count", <<expr>>, ""))

expr_n_distinct(expr) ==
    /\ CanCall
    /\ ExExprNew(Agg("NUnique", nodes[expr]), Call("n_distinct", <<expr>>, ""))

expr_first(expr) ==
    /\ CanCall
    /\ ExExprNew(Agg("First", nodes[expr]), Call("first", <<expr>>, ""))

expr_last(expr) ==
    /\ CanCall
    /\ ExExprNew(Agg("Last", nodes[expr]), Call("last", <<expr>>, ""))

(***************************************************************************)
(* coalesce: when(left.is_not_null()).then(left).otherwise(right)          *)
(***************************************************************************)
\* Faulty variant: the branches of the conditional swapped.
condition_swapped(left_expr, right_expr) ==
    Ternary(Unary("IsNotNull", left_expr), right_expr, left_expr)

condition(left_expr, right_expr) ==
    Ternary(Unary("IsNotNull", left_expr), left_expr, right_expr)

expr_coalesce(left, right) ==
    /\ CanCall
    /\ ExExprNew(condition(nodes[left], nodes[right]),
                 Call("coalesce", <<left, right>>, ""))

(***************************************************************************)
(* Window functions.  rolling_opts turns the parameters into the options   *)
(* of the rolling call, min_periods defaulting to the window size.  The    *)
(* factory uses the value it returns as it is: it compares nothing and has *)
(* no error path.                                                           *)
(***************************************************************************)
rolling_opts(window_size, weights, min_periods, center) ==
    [window_size |-> window_size,
     weights |-> weights,
     min_periods |-> IF min_periods = <<>> THEN window_size ELSE min_periods[1],
     center |-> center]

WindowCall(name, data, window_size, weights, min_periods) ==
    [Call(name, <<data>>, "") EXCEPT
        !.size = window_size, !.weights = weights, !.min_periods = min_periods]

init_window_expr_fun(name, fun, data, window_size, weights, min_periods, center) ==
    LET opts == rolling_opts(window_size, weights, min_periods, center)
        call == WindowCall(name, data, window_size, weights, min_periods)
    IN  /\ CanCall
        /\ ExExprNew(Rolling(fun, nodes[data], opts), call)

expr_window_max(data, window_size, weights, min_periods, center) ==
    init_window_expr_fun("window_max", "rolling_max",
                         data, window_size, weights, min_periods, center)

expr_window_min(data, window_size, weights, min_periods, center) ==
    init_window_expr_fun("window_min", "rolling_min",
                         data, window_size, weights, min_periods, center)

expr_window_sum(data, window_size, weights, min_periods, center) ==
    init_window_expr_fun("window_sum", "rolling_sum",
                         data, window_size, weights, min_periods, center)

expr_window_mean(data, window_size, weights, min_periods, center) ==
    init_window_expr_fun("window_mean", "rolling_mean",
                         data, window_size, weights, min_periods, center)

(***************************************************************************)
(* Cumulative, ordering and uniqueness operators.                          *)
(***************************************************************************)
expr_cumulative_min(data, reverse) ==
    /\ CanCall
    /\ ExExprNew(Cumulative("cummin", nodes[data], reverse),
                 [Call("cumulative_min", <<data>>, "") EXCEPT !.flag = reverse])

expr_cumulative_max(data, reverse) ==
    /\ CanCall
    /\ ExExprNew(Cumulative("cummax", nodes[data], reverse),
                 [Call("cumulative_max", <<data>>, "") EXCEPT !.flag = reverse])

expr_cumulative_sum(data, reverse) ==
    /\ CanCall
    /\ ExExprNew(Cumulative("cumsum", nodes[data], reverse),
                 [Call("cumulative_sum", <<data>>, "") EXCEPT !.flag = reverse])

expr_reverse(expr) ==
    /\ CanCall
    /\ ExExprNew(Unary("Reverse", nodes[expr]), Call("reverse", <<expr>>, ""))

\* expr.sort(reverse) sets the direction and nothing else.  Where the nulls
\* go is the engine's choice, which this file does not make: nulls_last
\* stands for that choice and either value is admitted.
sort_expr(expr, reverse, nulls_last) ==
    Sort(expr, SortOptions(reverse, nulls_last))

expr_sort(expr, reverse) ==
    /\ CanCall
    /\ \E nulls_last \in BOOLEAN :
         ExExprNew(sort_expr(nodes[expr], reverse, nulls_last),
                   [Call("sort", <<expr>>, "") EXCEPT !.flag = reverse])

\* Faulty variant: arg_sort asked to put the nulls last.
argsort_nulls_last(expr, reverse) ==
    LET opts == SortOptions(reverse, TRUE)
    IN  ArgSort(expr, opts)

\* SortOptions { descending: reverse, nulls_last: false }
argsort_expr(expr, reverse) ==
    LET opts == SortOptions(reverse, FALSE)
    IN  ArgSort(expr, opts)

expr_argsort(expr, reverse) ==
    /\ CanCall
    /\ ExExprNew(argsort_expr(nodes[expr], reverse),
                 [Call("argsort", <<expr>>, "") EXCEPT !.flag = reverse])

expr_distinct(expr) ==
    /\ CanCall
    /\ ExExprNew(Unary("UniqueStable", nodes[expr]), Call("distinct", <<expr>>, ""))

expr_unordered_distinct(expr) ==
    /\ CanCall
    /\ ExExprNew(Unary("Unique", nodes[expr]), Call("unordered_distinct", <<expr>>, ""))

(***************************************************************************)
(* describe_filter_plan: the plan of the frame filtered by the expression. *)
(* It returns the description and builds no handle.                        *)
(***************************************************************************)
describe_plan(frame, expressions) == [plan |-> "FILTER", predicate |-> expressions, from |-> frame]

expr_describe_filter_plan(expr) ==
    /\ CanCall
    /\ last' = [Call("describe_filter_plan", <<expr>>, "") EXCEPT
                   !.out = <<describe_plan(df, nodes[expr])>>]
    /\ UNCHANGED <<nodes, origin, df>>

(***************************************************************************)
(* The factory interface: any call, in any order, on any handles built so  *)
(* far.                                                                    *)
(***************************************************************************)
EmptyFrame == [a |-> <<>>, b |-> <<>>]

Init ==
    /\ nodes = <<>>
    /\ origin = <<>>
    /\ last = NoCall
    /\ df = EmptyFrame

Next ==
    \/ \E number \in IntegerInputs : expr_integer(number)
    \/ \E number \in FloatInputs : expr_float(number)
    \/ \E string \in StringInputs : expr_string(string)
    \/ \E boolean \in BooleanInputs : expr_boolean(boolean)
    \/ \E date \in DateInputs : expr_date(date)
    \/ \E date \in DateInputs, time \in TimeInputs : expr_datetime(date, time)
    \/ \E name \in ColumnNames : expr_column(name)
    \/ \E data \in Handles, to_dtype \in CastTargets : expr_cast(data, to_dtype)
    \/ \E left \in Handles, right \in Handles : expr_eq(left, right)
    \/ \E left \in Handles, right \in Handles : expr_neq(left, right)
    \/ \E left \in Handles, right \in Handles : expr_gt(left, right)
    \/ \E left \in Handles, right \in Handles : expr_gt_eq(left, right)
    \/ \E left \in Handles, right \in Handles : expr_lt(left, right)
    \/ \E left \in Handles, right \in Handles : expr_lt_eq(left, right)
    \/ \E left \in Handles, right \in Handles : expr_binary_and(left, right)
    \/ \E left \in Handles, right \in Handles : expr_binary_or(left, right)
    \/ \E left \in Handles, right \in Handles : expr_all_equal(left, right)
    \/ \E left \in Handles, right \in Handles : expr_fill_missing_with_value(left, right)
    \/ \E left \in Handles, right \in Handles : expr_add(left, right)
    \/ \E left \in Handles, right \in Handles : expr_subtract(left, right)
    \/ \E left \in Handles, right \in Handles : expr_divide(left, right)
    \/ \E left \in Handles, right \in Handles : expr_quotient(left, right)
    \/ \E left \in Handles, right \in Handles : expr_remainder(left, right)
    \/ \E left \in Handles, right \in Handles : expr_multiply(left, right)
    \/ \E left \in Handles, right \in Handles : expr_pow(left, right)
    \/ \E left \in Handles, right \in Handles : expr_coalesce(left, right)
    \/ \E expr \in Handles : expr_is_nil(expr)
    \/ \E expr \in Handles : expr_is_not_nil(expr)
    \/ \E expr \in Handles : expr_sum(expr)
    \/ \E expr \in Handles : expr_min(expr)
    \/ \E expr \in Handles : expr_max(expr)
    \/ \E expr \in Handles : expr_mean(expr)
    \/ \E expr \in Handles : expr_median(expr)
    \/ \E expr \in Handles : expr_var(expr)
    \/ \E expr \in Handles : expr_std(expr)
    \/ \E expr \in Handles : expr_count(expr)
    \/ \E expr \in Handles : expr_n_distinct(expr)
    \/ \E expr \in Handles : expr_first(expr)
    \/ \E expr \in Handles : expr_last(expr)
    \/ \E expr \in Handles : expr_reverse(expr)
    \/ \E expr \in Handles : expr_distinct(expr)
    \/ \E expr \in Handles : expr_unordered_distinct(expr)
    \/ \E expr \in Handles, offset \in OffsetInputs, length \in LengthInputs :
          expr_slice(expr, offset, length)
    \/ \E expr \in Handles, length \in LengthInputs : expr_head(expr, length)
    \/ \E expr \in Handles, length \in LengthInputs : expr_tail(expr, length)
    \/ \E data \in Handles, min_or_max \in PeakKinds : expr_peaks(data, min_or_max)
    \/ \E data \in Handles, strategy \in Strategies : expr_fill_missing(data, strategy)
    \/ \E expr \in Handles, q \in QuantileInputs : expr_quantile(expr, q)
    \/ \E expr \in Handles, name \in AliasNames : expr_alias(expr, name)
    \/ \E data \in Handles, w \in WindowInputs :
          expr_window_max(data, w.window_size, w.weights, w.min_periods, w.center)
    \/ \E data \in Handles, w \in WindowInputs :
          expr_window_min(data, w.window_size, w.weights, w.min_periods, w.center)
    \/ \E data \in Handles, w \in WindowInputs :
          expr_window_sum(data, w.window_size, w.weights, w.min_periods, w.center)
    \/ \E data \in Handles, w \in WindowInputs :
          expr_window_mean(data, w.window_size, w.weights, w.min_periods, w.center)
    \/ \E data \in Handles, reverse \in BOOLEAN : expr_cumulative_min(data, reverse)
    \/ \E data \in Handles, reverse \in BOOLEAN : expr_cumulative_max(data, reverse)
    \/ \E data \in Handles, reverse \in BOOLEAN : expr_cumulative_sum(data, reverse)
    \/ \E expr \in Handles, reverse \in BOOLEAN : expr_sort(expr, reverse)
    \/ \E expr \in Handles, reverse \in BOOLEAN : expr_argsort(expr, reverse)
    \/ \E expr \in Handles : expr_describe_filter_plan(expr)

Spec == Init /\ [][Next]_vars

(***************************************************************************)
(* The execution engine, on nullable integer columns.  A series is a       *)
(* sequence of cells; a literal and a reduction are series of length 1,    *)
(* which an element-wise operation broadcasts against the other operand.   *)
(* A failed evaluation (a shape mismatch, an integer division by zero) is  *)
(* the value Failed.                                                       *)
(***************************************************************************)
Failed == <<[error |-> TRUE]>>
Poison == [error |-> TRUE]

Abs(n) == IF n < 0 THEN -n ELSE n

RECURSIVE GCD(_, _)
GCD(m, n) == IF n = 0 THEN m ELSE GCD(n, m % n)

\* The float n/d (d > 0), in lowest terms.
Frac(n, d) ==
    LET g == GCD(Abs(n), d)
    IN  [num |-> n \div g, den |-> d \div g]

ToFloat(cell) == IF IsNull(cell) THEN Null ELSE Frac(cell.int, 1)

Broadcastable(l, r) == Len(l) = Len(r) \/ Len(l) = 1 \/ Len(r) = 1
BroadcastLen(l, r) == IF Len(l) = 1 THEN Len(r) ELSE Len(l)
At(s, i) == IF Len(s) = 1 THEN s[1] ELSE s[i]

\* Integer division truncates toward zero; a zero divisor aborts the evaluation.
TruncDiv(x, y) ==
    LET q == Abs(x) \div Abs(y)
    IN  IF (x < 0) # (y < 0) THEN -q ELSE q

BinaryCell(op, x, y) ==
    IF IsNull(x) \/ IsNull(y) THEN Null
    ELSE CASE op = "Eq" -> BoolV(x = y)
           [] op = "Divide" -> IF y.int = 0 THEN Poison ELSE IntV(TruncDiv(x.int, y.int))
           [] op = "Multiply" -> IntV(x.int * y.int)
           [] op = "Minus" -> IntV(x.int - y.int)

Checked(s) == IF \E i \in 1 .. Len(s) : s[i] = Poison THEN Failed ELSE s

BinarySeries(op, l, r) ==
    IF ~Broadcastable(l, r) THEN Failed
    ELSE Checked([i \in 1 .. BroadcastLen(l, r) |-> BinaryCell(op, At(l, i), At(r, i))])

\* when/then/otherwise: the truthy cell where the predicate is true, the falsy
\* cell where it is false or null.
TernarySeries(p, t, f) ==
    LET n == IF Len(p) # 1 THEN Len(p) ELSE BroadcastLen(t, f)
    IN  IF \/ ~Broadcastable(t, f)
           \/ ~(Len(p) = 1 \/ Len(p) = n)
           \/ ~(Len(t) = 1 \/ Len(t) = n)
           \/ ~(Len(f) = 1 \/ Len(f) = n)
        THEN Failed
        ELSE [i \in 1 .. n |-> IF At(p, i) = BoolV(TRUE) THEN At(t, i) ELSE At(f, i)]

IsNotNullSeries(s) == [i \in 1 .. Len(s) |-> BoolV(~IsNull(s[i]))]

NonNull(s) == SelectSeq(s, LAMBDA c : ~IsNull(c))

RECURSIVE SumInts(_)
SumInts(s) == IF s = <<>> THEN 0 ELSE s[1].int + SumInts(Tail(s))

\* A reduction skips nulls and is null when nothing is left.
AggSeries(op, s) ==
    LET vals == NonNull(s)
        ints == {vals[i].int : i \in 1 .. Len(vals)}
    IN  IF vals = <<>> THEN <<Null>>
        ELSE CASE op = "Min" -> <<IntV(CHOOSE m \in ints : \A x \in ints : m <= x)>>
               [] op = "Max" -> <<IntV(CHOOSE m \in ints : \A x \in ints : m >= x)>>
               [] op = "Mean" -> <<Frac(SumInts(vals), Len(vals))>>

\* fill_null: the fill value where the cell is null; filling an integer column
\* with a float casts the column to float.
FillNullSeries(s, by, by_is_float) ==
    IF ~(Len(by) = 1 \/ Len(by) = Len(s)) THEN Failed
    ELSE [i \in 1 .. Len(s) |->
            IF IsNull(s[i]) THEN At(by, i)
            ELSE IF by_is_float THEN ToFloat(s[i]) ELSE s[i]]

RECURSIVE ForwardFillSeries(_)
ForwardFillSeries(s) ==
    IF s = <<>> THEN <<>>
    ELSE LET init == ForwardFillSeries(SubSeq(s, 1, Len(s) - 1))
             cell == s[Len(s)]
         IN  Append(init, IF IsNull(cell) /\ init # <<>> THEN init[Len(init)] ELSE cell)

RECURSIVE BackwardFillSeries(_)
BackwardFillSeries(s) ==
    IF s = <<>> THEN <<>>
    ELSE LET rest == BackwardFillSeries(Tail(s))
         IN  <<IF IsNull(s[1]) /\ rest # <<>> THEN rest[1] ELSE s[1]>> \o rest

\* Sorting keeps the non-null values in order and puts the nulls after them
\* when nulls_last is set, before them when it is not.
Nulls(n) == [i \in 1 .. n |-> Null]

SortSeries(s, options) ==
    LET vals == NonNull(s)
        k == Len(vals)
        ints == {vals[i].int : i \in 1 .. k}
        Below(v) == Cardinality({i \in 1 .. k :
                        IF options.descending THEN vals[i].int > v ELSE vals[i].int < v})
        UpTo(v) == Cardinality({i \in 1 .. k :
                        IF options.descending THEN vals[i].int >= v ELSE vals[i].int <= v})
        sorted == [p \in 1 .. k |-> IntV(CHOOSE v \in ints : Below(v) < p /\ p <= UpTo(v))]
    IN  IF options.nulls_last
        THEN sorted \o Nulls(Len(s) - k)
        ELSE Nulls(Len(s) - k) \o sorted

\* arg_sort: the 0-based positions of the cells in sorted order, equal values
\* in the order they stand in, the nulls placed as for sort.
ArgSortSeries(s, options) ==
    LET I == {i \in 1 .. Len(s) : ~IsNull(s[i])}
        N == {i \in 1 .. Len(s) : IsNull(s[i])}
        Before(i, j) ==
            \/ IF options.descending THEN s[i].int > s[j].int ELSE s[i].int < s[j].int
            \/ (s[i].int = s[j].int /\ i < j)
        val_idx == [p \in 1 .. Cardinality(I) |->
                      IntV((CHOOSE i \in I : Cardinality({j \in I : Before(j, i)}) = p - 1) - 1)]
        null_idx == [p \in 1 .. Cardinality(N) |->
                      IntV((CHOOSE i \in N : Cardinality({j \in N : j < i}) = p - 1) - 1)]
    IN  IF options.nulls_last THEN val_idx \o null_idx ELSE null_idx \o val_idx

\* The type of the series an expression evaluates to, "none" outside the
\* fragment of the engine that is modelled.
RECURSIVE TypeOf(_)
TypeOf(e) ==
    CASE e.kind = "Literal" ->
            IF e.value = Null THEN "null"
            ELSE IF DOMAIN e.value = {"int"} THEN "int" ELSE "none"
      [] e.kind = "Column" -> IF e.name \in ColumnNames THEN "int" ELSE "none"
      [] e.kind = "BinaryExpr" ->
            IF TypeOf(e.left) = "int" /\ TypeOf(e.right) = "int"
            THEN (CASE e.op = "Eq" -> "bool"
                    [] e.op \in {"Divide", "Multiply", "Minus"} -> "int"
                    [] OTHER -> "none")
            ELSE "none"
      [] e.kind = "Ternary" ->
            IF /\ TypeOf(e.predicate) = "bool"
               /\ {TypeOf(e.truthy), TypeOf(e.falsy)} \in {{"int"}, {"int", "null"}}
            THEN "int" ELSE "none"
      [] e.kind = "Unary" ->
            IF TypeOf(e.input) # "int" THEN "none"
            ELSE (CASE e.op = "IsNotNull" -> "bool"
                    [] e.op \in {"ForwardFill", "BackwardFill"} -> "int"
                    [] OTHER -> "none")
      [] e.kind = "Agg" ->
            IF TypeOf(e.input) # "int" THEN "none"
            ELSE (CASE e.op \in {"Min", "Max"} -> "int"
                    [] e.op = "Mean" -> "float"
                    [] OTHER -> "none")
      [] e.kind = "FillNull" ->
            IF TypeOf(e.input) = "int" /\ TypeOf(e.by) \in {"int", "float"}
            THEN TypeOf(e.by) ELSE "none"
      [] e.kind \in {"Sort", "ArgSort"} ->
            IF TypeOf(e.input) = "int" THEN "int" ELSE "none"
      [] OTHER -> "none"

Evaluable(e) == TypeOf(e) \in {"int", "bool", "float"}

RECURSIVE Eval(_, _)
Eval(e, frame) ==
    CASE e.kind = "Literal" -> <<e.value>>
      [] e.kind = "Column" -> frame[e.name]
      [] e.kind = "BinaryExpr" ->
            LET l == Eval(e.left, frame)
                r == Eval(e.right, frame)
            IN  IF l = Failed \/ r = Failed THEN Failed ELSE BinarySeries(e.op, l, r)
      [] e.kind = "Ternary" ->
            LET p == Eval(e.predicate, frame)
                t == Eval(e.truthy, frame)
                f == Eval(e.falsy, frame)
            IN  IF p = Failed \/ t = Failed \/ f = Failed THEN Failed
                ELSE TernarySeries(p, t, f)
      [] e.kind = "Unary" ->
            LET s == Eval(e.input, frame)
            IN  IF s = Failed THEN Failed
                ELSE (CASE e.op = "IsNotNull" -> IsNotNullSeries(s)
                        [] e.op = "ForwardFill" -> ForwardFillSeries(s)
                        [] e.op = "BackwardFill" -> BackwardFillSeries(s))
      [] e.kind = "Agg" ->
            LET s == Eval(e.input, frame)
            IN  IF s = Failed THEN Failed ELSE AggSeries(e.op, s)
      [] e.kind = "FillNull" ->
            LET s == Eval(e.input, frame)
                by == Eval(e.by, frame)
            IN  IF s = Failed \/ by = Failed THEN Failed
                ELSE FillNullSeries(s, by, TypeOf(e.by) = "float")
      [] e.kind = "Sort" ->
            LET s == Eval(e.input, frame)
            IN  IF s = Failed THEN Failed ELSE SortSeries(s, e.options)
      [] e.kind = "ArgSort" ->
            LET s == Eval(e.input, frame)
            IN  IF s = Failed THEN Failed ELSE ArgSortSeries(s, e.options)

(***************************************************************************)
(* evaluate: the engine runs a built expression against the data frame and *)
(* returns the series, or raises when the evaluation fails.                *)
(***************************************************************************)
evaluate(expr) ==
    /\ Evaluable(nodes[expr])
    /\ LET series == Eval(nodes[expr], df)
           call == Call("evaluate", <<expr>>, "")
       IN  last' = IF series = Failed
                   THEN [call EXCEPT !.raised = TRUE]
                   ELSE [call EXCEPT !.out = <<series>>]
    /\ UNCHANGED <<nodes, origin, df>>

(***************************************************************************)
(* Data frames: two nullable integer columns of one length.                *)
(***************************************************************************)
CellInts == {-3, 0, 2}
Cells == {Null} \cup {IntV(n) : n \in CellInts}
Columns(n) == [1 .. n -> Cells]

\* Frames for the two-operand combinators: every pair of columns.
PairFrames ==
    UNION {{[a |-> x, b |-> y] : x \in Columns(n), y \in Columns(n)} : n \in 0 .. MaxPairLen}

\* Frames for the one-operand operators: every column "a", "b" all null.
ColumnFrames ==
    UNION {{[a |-> x, b |-> Nulls(n)] : x \in Columns(n)} : n \in 0 .. MaxLen}

(***************************************************************************)
(* Arithmetic and coalesce over a frame: columns and a literal are built,  *)
(* combined by quotient, remainder and coalesce, and evaluated.            *)
(***************************************************************************)
InitArith ==
    /\ nodes = <<>>
    /\ origin = <<>>
    /\ last = NoCall
    /\ df \in PairFrames

NextArith ==
    \/ \E name \in ColumnNames : expr_column(name)
    \/ expr_integer(2)
    \/ \E left \in Handles, right \in Handles : expr_quotient(left, right)
    \/ \E left \in Handles, right \in Handles : expr_remainder(left, right)
    \/ \E left \in Handles, right \in Handles : expr_coalesce(left, right)
    \/ \E expr \in Handles : evaluate(expr)

SpecArith == InitArith /\ [][NextArith]_vars

(***************************************************************************)
(* Ordering, peaks and fill_missing over one column.                       *)
(***************************************************************************)
InitColumn ==
    /\ nodes = <<>>
    /\ origin = <<>>
    /\ last = NoCall
    /\ df \in ColumnFrames

NextColumn ==
    \/ expr_column("a")
    \/ \E expr \in Handles, reverse \in BOOLEAN : expr_sort(expr, reverse)
    \/ \E expr \in Handles, reverse \in BOOLEAN : expr_argsort(expr, reverse)
    \/ \E data \in Handles, min_or_max \in PeakKinds : expr_peaks(data, min_or_max)
    \/ \E data \in Handles, strategy \in Strategies : expr_fill_missing(data, strategy)
    \/ \E expr \in Handles : evaluate(expr)

SpecColumn == InitColumn /\ [][NextColumn]_vars

(***************************************************************************)
(* Properties.  Evaluated(op) holds when the call just made evaluated a    *)
(* handle that the factory op returned; Operand(i) is the series its i-th  *)
(* operand evaluates to on the same frame, Output the series it returned.  *)
(***************************************************************************)
Evaluated(op) ==
    /\ last.op = "evaluate"
    /\ origin[last.args[1]].op = op

Built == origin[last.args[1]]
Operand(i) == Eval(nodes[Built.args[i]], df)
Output == last.out[1]

\* C1 as stated: quotient(a, b) is null exactly where b is 0, and is a / b at
\* every other position.
C1_NullExactlyWhereZero ==
    Evaluated("quotient") =>
        /\ ~last.raised
        /\ LET a == Operand(1)
               b == Operand(2)
               q == Output
           IN  \A i \in 1 .. Len(q) :
                 LET x == At(a, i)
                     y == At(b, i)
                 IN  /\ IsNull(q[i]) <=> y = IntV(0)
                     /\ y # IntV(0) =>
                          q[i] = IF IsNull(x) \/ IsNull(y) THEN Null
                                 ELSE IntV(TruncDiv(x.int, y.int))

\* C1 amended: evaluating quotient(a, b) never fails; the result is null exactly
\* where b is 0 or a or b is null, and at every other position it is a / b, the
\* integer division truncated toward zero.
C1_Quotient ==
    Evaluated("quotient") =>
        /\ ~last.raised
        /\ LET a == Operand(1)
               b == Operand(2)
               q == Output
           IN  /\ Len(q) = BroadcastLen(a, b)
               /\ \A i \in 1 .. Len(q) :
                    LET x == At(a, i)
                        y == At(b, i)
                    IN  /\ IsNull(q[i]) <=> (y = IntV(0) \/ IsNull(x) \/ IsNull(y))
                        /\ ~IsNull(q[i]) => q[i] = IntV(TruncDiv(x.int, y.int))

\* A quotient was evaluated over a zero divisor under a non-null dividend, and
\* over a null dividend above a non-zero divisor.
C1_Witness ==
    /\ Evaluated("quotient")
    /\ ~last.raised
    /\ \E i, j \in 1 .. Len(Output) :
         /\ At(Operand(2), i) = IntV(0) /\ ~IsNull(At(Operand(1), i))
         /\ IsNull(At(Operand(1), j))
         /\ ~IsNull(At(Operand(2), j)) /\ At(Operand(2), j) # IntV(0)

\* C2: remainder(a, b) is null at exactly the positions where quotient(a, b) is
\* null, and at every other position it is a - b * quotient(a, b).
C2_Remainder ==
    Evaluated("remainder") =>
        /\ ~last.raised
        /\ LET a == Operand(1)
               b == Operand(2)
               r == Output
               q == Eval(quotient(nodes[Built.args[1]], nodes[Built.args[2]]), df)
           IN  /\ Len(r) = Len(q)
               /\ \A i \in 1 .. Len(r) :
                    /\ IsNull(r[i]) <=> IsNull(q[i])
                    /\ ~IsNull(r[i]) =>
                         r[i] = IntV(At(a, i).int - At(b, i).int * q[i].int)

\* A remainder was evaluated with a zero divisor at one position and a non-zero
\* remainder at another.
C2_Witness ==
    /\ Evaluated("remainder")
    /\ ~last.raised
    /\ \E i, j \in 1 .. Len(Output) :
         /\ At(Operand(2), i) = IntV(0) /\ IsNull(Output[i])
         /\ ~IsNull(Output[j]) /\ Output[j] # IntV(0)

\* C3: coalesce(a, b) is a wherever a is non-null and b wherever a is null.
C3_Coalesce ==
    Evaluated("coalesce") =>
        /\ ~last.raised
        /\ LET a == Operand(1)
               b == Operand(2)
               c == Output
           IN  /\ Len(c) = BroadcastLen(a, b)
               /\ \A i \in 1 .. Len(c) :
                    c[i] = IF ~IsNull(At(a, i)) THEN At(a, i) ELSE At(b, i)

\* A coalesce was evaluated where a is null over a non-null b at one position,
\* and non-null over a different non-null b at another.
C3_Witness ==
    /\ Evaluated("coalesce")
    /\ ~last.raised
    /\ \E i, j \in 1 .. Len(Output) :
         /\ IsNull(At(Operand(1), i)) /\ ~IsNull(At(Operand(2), i))
         /\ ~IsNull(At(Operand(1), j)) /\ ~IsNull(At(Operand(2), j))
         /\ At(Operand(1), j) # At(Operand(2), j)

\* The series e taken at the 0-based positions perm holds.
Take(e, perm) == [i \in 1 .. Len(perm) |-> e[perm[i].int + 1]]

IsPermutation(perm, n) ==
    /\ Len(perm) = n
    /\ \A i \in 1 .. n : ~IsNull(perm[i])
    /\ {perm[i].int : i \in 1 .. n} = 0 .. (n - 1)

NullsFirst(s) == \A i, j \in 1 .. Len(s) : (i < j /\ IsNull(s[j])) => IsNull(s[i])
NullsLast(s) == \A i, j \in 1 .. Len(s) : (i < j /\ IsNull(s[i])) => IsNull(s[j])

Ordered(s, descending) ==
    \A i, j \in 1 .. Len(s) :
        (i < j /\ ~IsNull(s[i]) /\ ~IsNull(s[j])) =>
            IF descending THEN s[i].int >= s[j].int ELSE s[i].int <= s[j].int

\* The sort nodes built over the operand of the argsort under evaluation, in
\* the same direction.
SortsOfSame ==
    {h \in DOMAIN nodes :
        /\ origin[h].op = "sort"
        /\ origin[h].args = Built.args
        /\ origin[h].flag = Built.flag}

\* C7 as stated: indexing e by argsort(e, desc) reproduces sort(e, desc), and
\* the nulls are placed last in both, in either direction.
C7_ConsistentNullsLast ==
    Evaluated("argsort") =>
        /\ ~last.raised
        /\ LET e == Operand(1)
               perm == Output
           IN  /\ IsPermutation(perm, Len(e))
               /\ NullsLast(Take(e, perm))
               /\ \A h \in SortsOfSame :
                    LET sorted == Eval(nodes[h], df)
                    IN  /\ Take(e, perm) = sorted
                        /\ NullsLast(sorted)

\* C7 amended: indexing e by argsort(e, desc) gives the non-null values in the
\* order sort(e, desc) gives them, after the nulls, which argsort places first
\* in either direction; the whole result is sort(e, desc) exactly when sort
\* places its nulls first too.
C7_ArgsortNullsFirst ==
    Evaluated("argsort") =>
        /\ ~last.raised
        /\ LET e == Operand(1)
               perm == Output
           IN  /\ IsPermutation(perm, Len(e))
               /\ NullsFirst(Take(e, perm))
               /\ Ordered(Take(e, perm), Built.flag)
               /\ \A h \in SortsOfSame :
                    LET sorted == Eval(nodes[h], df)
                    IN  /\ NonNull(Take(e, perm)) = NonNull(sorted)
                        /\ Ordered(sorted, Built.flag)
                        /\ (Take(e, perm) = sorted) <=> NullsFirst(sorted)

\* A descending argsort was evaluated over a sequence that holds a null
\* between two distinct values in ascending order, and a descending sort of
\* the same sequence had been built.
C7_Witness ==
    /\ Evaluated("argsort")
    /\ ~last.raised
    /\ Built.flag
    /\ SortsOfSame # {}
    /\ \E i, j, k \in 1 .. Len(Operand(1)) :
         /\ i < j /\ j < k
         /\ ~IsNull(Operand(1)[i]) /\ IsNull(Operand(1)[j]) /\ ~IsNull(Operand(1)[k])
         /\ Operand(1)[i].int < Operand(1)[k].int

\* A cell as a fraction: an integer n is n/1.
Num(c) == IF DOMAIN c = {"int"} THEN c.int ELSE c.num
Den(c) == IF DOMAIN c = {"int"} THEN 1 ELSE c.den
SameNumber(x, y) == ~IsNull(x) /\ ~IsNull(y) /\ Num(x) * Den(y) = Num(y) * Den(x)

\* c is the min, max or mean (by strategy) of the non-null cells of e, null
\* when e has none.
IsReduction(c, e, strategy) ==
    LET vals == NonNull(e)
        ints == {vals[i].int : i \in 1 .. Len(vals)}
    IN  IF vals = <<>> THEN IsNull(c)
        ELSE /\ ~IsNull(c)
             /\ CASE strategy = "min" -> Num(c) \in ints /\ Den(c) = 1
                                         /\ \A x \in ints : Num(c) <= x
                  [] strategy = "max" -> Num(c) \in ints /\ Den(c) = 1
                                         /\ \A x \in ints : Num(c) >= x
                  [] strategy = "mean" -> Num(c) * Len(vals) = SumInts(vals) * Den(c)

\* C8: fill_missing with "min", "max" or "mean" leaves every non-null element
\* unchanged and puts the reduction of the whole column at every null position.
C8_FillWithReduction ==
    (Evaluated("fill_missing") /\ Built.tag \in {"min", "max", "mean"}) =>
        /\ ~last.raised
        /\ LET e == Operand(1)
               filled == Output
           IN  /\ Len(filled) = Len(e)
               /\ \A i \in 1 .. Len(e) :
                    IF IsNull(e[i])
                    THEN IsReduction(filled[i], e, Built.tag)
                    ELSE SameNumber(filled[i], e[i])

\* fill_missing([0, null, 2], "mean") was evaluated and returned [0, 1, 2].
C8_Witness ==
    /\ Evaluated("fill_missing")
    /\ Built.tag = "mean"
    /\ ~last.raised
    /\ Operand(1) = <<IntV(0), Null, IntV(2)>>
    /\ Len(Output) = 3
    /\ \A i \in 1 .. 3 : SameNumber(Output[i], IntV(i - 1))

\* C9: peaks(e, "min" | "max") is a mask as long as e, true at exactly the
\* positions whose element equals the min (max) of all of e.
C9_Peaks ==
    (Evaluated("peaks") /\ Built.tag \in {"min", "max"}) =>
        /\ ~last.raised
        /\ LET e == Operand(1)
               mask == Output
           IN  /\ Len(mask) = Len(e)
               /\ \A i \in 1 .. Len(e) :
                    /\ mask[i] \in {BoolV(TRUE), BoolV(FALSE), Null}
                    /\ mask[i] = BoolV(TRUE) <=>
                         /\ ~IsNull(e[i])
                         /\ \A j \in 1 .. Len(e) :
                              ~IsNull(e[j]) =>
                                 IF Built.tag = "min"
                                 THEN e[i].int <= e[j].int
                                 ELSE e[i].int >= e[j].int

\* peaks(e, "max") was evaluated where an element exceeds its neighbour without
\* being the maximum of e: the mask is false there and true at the maximum.
C9_Witness ==
    /\ Evaluated("peaks")
    /\ Built.tag = "max"
    /\ ~last.raised
    /\ Len(Operand(1)) = 3
    /\ ~IsNull(Operand(1)[1]) /\ ~IsNull(Operand(1)[2])
    /\ Operand(1)[1].int > Operand(1)[2].int
    /\ Output[1] = BoolV(FALSE)
    /\ Output[3] = BoolV(TRUE)

\* C4: cast to a type name that does not resolve raises at the call, and no
\* handle is ever returned for such a call: no Cast node of an unknown type
\* exists for a later evaluate or describe_filter_plan to be handed.
C4_CastRejectsUnknownType ==
    /\ (last.op = "cast" /\ ~cast_str_to_dtype(last.tag).ok) => last.raised
    /\ \A h \in DOMAIN nodes :
         /\ origin[h].op = "cast" =>
               (cast_str_to_dtype(origin[h].tag).ok /\ nodes[h].kind = "Cast")
         /\ nodes[h].kind = "Cast" => cast_str_to_dtype(nodes[h].dtype).ok

\* cast(x, "not_a_type") was called on a built handle and raised.
C4_Witness ==
    /\ last.op = "cast"
    /\ last.tag = "not_a_type"
    /\ last.raised
    /\ last.args[1] \in DOMAIN nodes

FillStrategies == {"backward", "forward", "min", "max", "mean"}

\* C5: fill_missing raises exactly for a strategy outside the five listed, and
\* then returns no handle; for each of the five it returns a new handle.
C5_FillMissingStrategies ==
    /\ last.op = "fill_missing" =>
         /\ last.raised <=> last.tag \notin FillStrategies
         /\ ~last.raised =>
               /\ origin # <<>>
               /\ origin[Len(origin)] = last
               /\ nodes[Len(nodes)].kind \in {"Unary", "FillNull"}
    /\ \A h \in DOMAIN nodes :
         origin[h].op = "fill_missing" => origin[h].tag \in FillStrategies

\* fill_missing raised on the strategy "median" after a fill_missing call with
\* a listed strategy had returned a handle.
C5_Witness ==
    /\ last.op = "fill_missing"
    /\ last.tag = "median"
    /\ last.raised
    /\ \E h \in DOMAIN nodes : origin[h].op = "fill_missing"

WindowOps == {"window_max", "window_min", "window_sum", "window_mean"}

InvalidWindow(window_size, weights, min_periods) ==
    \/ window_size < 1
    \/ (weights # <<>> /\ Len(weights[1]) # window_size)
    \/ (min_periods # <<>> /\ min_periods[1] > window_size)

\* C6: a window factory called with a window size below 1, with weights whose
\* length is not the window size or with min_periods above the window size
\* raises and returns no Window node.
C6_WindowParametersValidated ==
    /\ (last.op \in WindowOps /\ InvalidWindow(last.size, last.weights, last.min_periods))
          => last.raised
    /\ \A h \in DOMAIN nodes :
         /\ origin[h].op \in WindowOps =>
               /\ ~InvalidWindow(origin[h].size, origin[h].weights, origin[h].min_periods)
               /\ nodes[h].kind = "Rolling"
         /\ nodes[h].kind = "Rolling" =>
               /\ nodes[h].options.window_size >= 1
               /\ nodes[h].options.min_periods <= nodes[h].options.window_size
               /\ nodes[h].options.weights # <<>> =>
                     Len(nodes[h].options.weights[1]) = nodes[h].options.window_size

\* The operand expressions a node wraps, and whether e holds x at any depth.
Children(e) ==
    {e[f] : f \in DOMAIN e \cap
               {"left", "right", "input", "predicate", "truthy", "falsy", "by"}}

RECURSIVE Contains(_, _)
Contains(e, x) == e = x \/ \E c \in Children(e) : Contains(c, x)

Range(seq) == {seq[i] : i \in 1 .. Len(seq)}

\* C10: no call changes a node built before it; a call that returns a handle
\* adds exactly one node, which wraps the nodes of handles that existed before
\* the call (so the graph of handles stays acyclic).
C10_NodesNeverMutated ==
    [][ /\ Len(nodes') >= Len(nodes)
        /\ \A h \in DOMAIN nodes : nodes'[h] = nodes[h]
        /\ Len(nodes') > Len(nodes) =>
              /\ Len(nodes') = Len(nodes) + 1
              /\ origin'[Len(nodes')] = last'
              /\ \A k \in Range(last'.args) :
                    /\ k \in DOMAIN nodes
                    /\ Contains(nodes'[Len(nodes')], nodes[k]) ]_vars

\* One node is the operand of two later nodes, and both hold it unchanged.
C10_Witness ==
    \E k, p, q \in DOMAIN nodes :
        /\ p # q
        /\ k \in Range(origin[p].args) /\ k \in Range(origin[q].args)
        /\ Contains(nodes[p], nodes[k]) /\ Contains(nodes[q], nodes[k])
        /\ nodes[p] # nodes[q]

====
